---- MODULE Spec2Model ----
(***************************************************************************)
(* A model of the retrieval-augmented study assistant of                   *)
(* src/rag_service.py (class RAGStudyAssistant): the chunker, the          *)
(* document store with its parallel vector index, and the query path.      *)
(*                                                                         *)
(* Strings are sequences of tokens: a positive integer is a word (a run of *)
(* non-whitespace characters), SP is one whitespace character and NL is    *)
(* the newline that separates the entries of a context.                    *)
(***************************************************************************)
EXTENDS Integers, Sequences, FiniteSets, TLC

VARIABLES
    embedder,     \* self.embedder: TRUE when the SentenceTransformer loaded, FALSE for None
    qa_pipeline,  \* self.qa_pipeline: the task of the loaded pipeline, or "None"
    documents,    \* self.documents: the list of chunk strings
    vector_index, \* self.vector_index: None, or the flat L2 index (width d, rows xb)
    adds,         \* number of add_documents calls made so far
    unembedded,   \* history: the store positions (from 1) of the chunks no vector was added for
    last,         \* the last call on the assistant: its arguments and its outcome
    ck_text,      \* the argument of the _chunk_text call under check
    ck_chunks,    \* the list that call returned
    ck_pc,        \* "call" before the call, "done" after it
    fc_text,      \* the generated text of the generate_flashcards call under check
    fc_result,    \* what that call ended with: the exception raised, the list returned
    fc_pc,        \* "call" before the call, "parsed" or "failed" after it
    a_pc,         \* the add_documents call of the adding thread: the line it is at
    a_chunks,     \* its local all_chunks
    a_rows,       \* its local embeddings: the rows it is about to add
    q_pc,         \* the query call of each querying thread: the line it is at
    q_I,          \* its local I[0]: the labels its search returned
    ss_documents, \* st.session_state.documents
    uploader,     \* the files the file_uploader widget holds
    clock,        \* datetime.now(), counted in uploads
    run,          \* the run of the script: page, position, what the user did
    removed,      \* the contents of the documents removed and not uploaded again
    asked         \* the context_texts of the chat question sent last

assistant == <<embedder, qa_pipeline, documents, vector_index, adds, unembedded, last>>
chunker == <<ck_text, ck_chunks, ck_pc>>
parser == <<fc_text, fc_result, fc_pc>>
threads == <<a_pc, a_chunks, a_rows, q_pc, q_I>>
app == <<ss_documents, uploader, clock, run, removed, asked>>
vars == <<embedder, qa_pipeline, documents, vector_index, adds, unembedded, last,
          ck_text, ck_chunks, ck_pc, fc_text, fc_result, fc_pc, a_pc, a_chunks,
          a_rows, q_pc, q_I, ss_documents, uploader, clock, run, removed, asked>>

----------------------------------------------------------------------------
(* Python helpers *)

SP == 0
NL == 0 - 1

Min(a, b) == IF a < b THEN a ELSE b
Max(a, b) == IF a > b THEN a ELSE b

\* s[lo:hi] for 0 <= lo, 0 <= hi (Python clamps both ends to len(s))
PySlice(s, lo, hi) == SubSeq(s, Min(lo, Len(s)) + 1, Min(hi, Len(s)))

\* len(range(0, stop, step)) for step > 0
RangeLen(stop, step) == IF stop <= 0 THEN 0 ELSE (stop + step - 1) \div step

IsWord(tok) == tok > 0

\* str.split(): the maximal runs of non-whitespace, in order
Split(text) == SelectSeq(text, IsWord)

\* ' '.join(words)
JoinSp(words) ==
    IF words = <<>> THEN <<>>
    ELSE [i \in 1..(2 * Len(words) - 1) |->
            IF i % 2 = 1 THEN words[(i + 1) \div 2] ELSE SP]

----------------------------------------------------------------------------
(* RAGStudyAssistant._chunk_text *)

chunk_size == 2000
chunk_overlap == 200

NonEmpty(s) == s # <<>>

\* a window one word short
WindowShort(words, k, step) == PySlice(words, (k - 1) * step, (k - 1) * step + chunk_size - 1)

\* the window words[i:i + chunk_size] of the k-th pass of the loop
Window(words, k, step) == PySlice(words, (k - 1) * step, (k - 1) * step + chunk_size)

ChunkWith(text, step) ==
    LET words == Split(text)
        n == RangeLen(Len(words), step)
        windows == [k \in 1..n |-> Window(words, k, step)]
        kept == SelectSeq(windows, NonEmpty)
    IN  [k \in 1..Len(kept) |-> JoinSp(kept[k])]

\* windows that step by the whole chunk size
ChunkNoOverlap(text) == ChunkWith(text, chunk_size)

_chunk_text(text) == ChunkWith(text, chunk_size - chunk_overlap)

----------------------------------------------------------------------------
(* The embedding capability (SentenceTransformer.encode) and the vector    *)
(* index (faiss.IndexFlatL2).  A vector is a tuple of integers.            *)

EmbedDim == 2
EmbedRange == 7

\* the embedding of one string at width w: a fixed function of the text
Embed(s, w) ==
    [i \in 1..w |-> IF s = <<>> THEN 0 ELSE (s[1] * i + Len(s)) % EmbedRange]

\* embedder.encode(texts): one row per text
encode(texts, w) == [j \in 1..Len(texts) |-> Embed(texts[j], w)]

RECURSIVE SqSum(_, _, _)
SqSum(a, b, i) ==
    IF i = 0 THEN 0 ELSE SqSum(a, b, i - 1) + (a[i] - b[i]) * (a[i] - b[i])

\* squared L2 distance
L2(a, b) == SqSum(a, b, Len(a))

\* the distances of the rows lo..hi of xb to x
RECURSIVE Distances(_, _, _, _)
Distances(xb, x, lo, hi) ==
    IF lo > hi THEN <<>>
    ELSE IF lo = hi THEN <<L2(xb[lo], x)>>
    ELSE Distances(xb, x, lo, (lo + hi) \div 2) \o
         Distances(xb, x, (lo + hi) \div 2 + 1, hi)

\* row r1 comes before row r2 in a result: nearer first, equal distances by row
Closer(ds, r1, r2) == ds[r1] < ds[r2] \/ (ds[r1] = ds[r2] /\ r1 < r2)

\* the k first of `rows` in that order (all of them when there are fewer)
RECURSIVE Nearest(_, _, _)
Nearest(ds, rows, k) ==
    IF k = 0 \/ rows = {} THEN <<>>
    ELSE LET r == CHOOSE r1 \in rows : \A r2 \in rows : ~Closer(ds, r2, r1)
         IN  <<r>> \o Nearest(ds, rows \ {r}, k - 1)

\* the labels I[0] of index.search(x, k): always k of them, the rows by
\* increasing distance (numbered from 0), then -1 for every missing neighbour
search(xb, x, k) ==
    LET found == Nearest(Distances(xb, x, 1, Len(xb)), 1..Len(xb), k)
    IN  [j \in 1..k |-> IF j <= Len(found) THEN found[j] - 1 ELSE 0 - 1]

NoIndex == [created |-> FALSE, d |-> 0, xb |-> <<>>]

\* vector_index.ntotal, 0 while the index is None
ntotal == Len(vector_index.xb)

----------------------------------------------------------------------------
(* The inputs of the calls *)

MaxAdds == 2

batch_size == 100
top_k == 30

\* w words numbered base+1 .. base+w, single spaces between them
Text(base, w) == JoinSp([i \in 1..w |-> base + i])

Blank == <<SP, SP>>
Sample == Text(100, 4)
Short == Text(10000, 50)
Long == Text(20000, 3000)

Other == Text(200, 2)

\* one more one-word document than an embedding batch holds
ManyDocs == [i \in 1..(batch_size + 1) |-> <<500 + i>>]

\* the document lists handed to add_documents
DocLists == << <<>>, <<Blank>>, <<Sample>>, <<Other, Blank, Sample>>,
               <<Short, Long>>, ManyDocs >>

SmallLists == {1, 2, 3, 4}
ScenarioLists == {3, 5}
DimLists == {3, 6}
FrameLists == {3, 4}
BatchLists == {2, 3, 6}

Questions == << <<901>>, <<503, SP, 902>> >>

\* the context_texts handed to query: none, or a list of texts
\* no supplied texts; supplied texts of more chunks than a search returns
ContextLists == << <<>>, <<Sample, Blank>> \o [i \in 1..top_k |-> <<600 + i>>] >>

Formats == {"full", "short_summary", "bullet_points", "long_answer", "one_word",
            "short_answer", "essay"}

\* what the generation pipeline can give back: a text as a sequence of pieces,
\* "PROMPT" standing for a verbatim copy of the prompt it was handed
Seq2SeqOutputs == { <<"answer">> }
CausalOutputs == { <<"PROMPT", "answer", "PROMPT", "more">> }

----------------------------------------------------------------------------
(* RAGStudyAssistant.__init__ *)

Tasks == {"text2text-generation", "text-generation", "None"}

NoCall ==
    [op |-> "init", input |-> 0, outcomes |-> <<>>, raised |-> "", returned |-> <<>>,
     ndocs |-> 0, nrows |-> 0, question |-> 0, context_texts |-> 0,
     answer_format |-> "", encode |-> "", path |-> "", k |-> 0, I |-> <<>>, instruction |-> "",
     max_length |-> 0, prompt |-> <<>>, generation |-> "", generated |-> <<>>,
     cards |-> <<>>]

InitAssistant ==
    /\ embedder \in BOOLEAN
    /\ qa_pipeline \in Tasks
    /\ vector_index = NoIndex
    /\ documents = <<>>
    /\ adds = 0
    /\ unembedded = {}
    /\ last = NoCall

----------------------------------------------------------------------------
(* RAGStudyAssistant.add_documents *)

\* the chunks of the documents lo..hi of a list, in document order
RECURSIVE ChunkRange(_, _, _)
ChunkRange(docs, lo, hi) ==
    IF lo > hi THEN <<>>
    ELSE IF lo = hi THEN _chunk_text(docs[lo])
    ELSE ChunkRange(docs, lo, (lo + hi) \div 2) \o
         ChunkRange(docs, (lo + hi) \div 2 + 1, hi)

\* all_chunks: the chunks of every document of the list
ChunkAll(docs) == ChunkRange(docs, 1, Len(docs))

\* batch_chunks of the b-th pass of the embedding loop
Batch(all_chunks, b) == PySlice(all_chunks, (b - 1) * batch_size, b * batch_size)

\* embeddings_list up to the b-th pass: outcomes[b] is the width of the
\* embeddings the b-th encode call returned, or 0 when it raised
RECURSIVE EmbeddingsList(_, _, _)
EmbeddingsList(all_chunks, outcomes, b) ==
    IF b = 0 THEN <<>>
    ELSE EmbeddingsList(all_chunks, outcomes, b - 1) \o
            (IF outcomes[b] = 0 THEN <<>>
             ELSE <<encode(Batch(all_chunks, b), outcomes[b])>>)

\* only the rows of the last array
VStackLast(arrays, n) == IF n = 0 THEN <<>> ELSE arrays[n]

\* np.vstack: the rows of the arrays, one after the other
RECURSIVE VStack(_, _)
VStack(arrays, n) == IF n = 0 THEN <<>> ELSE VStack(arrays, n - 1) \o arrays[n]

SameWidth(arrays) == \A a, b \in 1..Len(arrays) : Len(arrays[a][1]) = Len(arrays[b][1])

\* the documents themselves appended, not their chunks
StoreDocs(docs, all_chunks) == documents \o docs

\* nothing stored without an embedder
StoreIfEmbedder(docs, all_chunks) ==
    IF docs = <<>> \/ ~embedder THEN documents ELSE documents \o all_chunks

\* the chunks of the call put in the place of the store
StoreReplaced(docs, all_chunks) == IF docs = <<>> THEN documents ELSE all_chunks

\* the store the call leaves behind
StoreAfterAdd(docs, all_chunks) == IF docs = <<>> THEN documents ELSE documents \o all_chunks

\* an index that takes rows of any width
IndexAddUnchecked(docs, all_chunks, outcomes) ==
    LET embeddings_list == EmbeddingsList(all_chunks, outcomes, Len(outcomes))
        embeddings == VStack(embeddings_list, Len(embeddings_list))
    IN  IF docs = <<>> \/ embeddings_list = <<>>
        THEN [index |-> vector_index, raised |-> ""]
        ELSE IF ~vector_index.created
        THEN [index |-> [created |-> TRUE, d |-> Len(embeddings[1]), xb |-> embeddings],
              raised |-> ""]
        ELSE [index |-> [vector_index EXCEPT !.xb = @ \o embeddings], raised |-> ""]

\* the index the call leaves behind, and the exception it ends with ("" for none)
IndexAfterAdd(docs, all_chunks, outcomes) ==
    LET embeddings_list == EmbeddingsList(all_chunks, outcomes, Len(outcomes))
        embeddings == VStack(embeddings_list, Len(embeddings_list))
        width == Len(embeddings[1])
    IN  IF docs = <<>> \/ embeddings_list = <<>>
        THEN [index |-> vector_index, raised |-> ""]
        ELSE IF ~SameWidth(embeddings_list)
        THEN [index |-> vector_index, raised |-> "ValueError"]
        ELSE IF ~vector_index.created
        THEN [index |-> [created |-> TRUE, d |-> width, xb |-> embeddings], raised |-> ""]
        ELSE IF vector_index.d # width
        THEN [index |-> vector_index, raised |-> "AssertionError"]
        ELSE [index |-> [vector_index EXCEPT !.xb = @ \o embeddings], raised |-> ""]

\* the chunks of the call (numbered from 1) that get no row in the index
Unembedded(docs, all_chunks, outcomes, raised) ==
    IF docs = <<>> THEN {}
    ELSE {c \in 1..Len(all_chunks) :
            raised # "" \/ outcomes[(c - 1) \div batch_size + 1] = 0}

\* the outcomes the encode calls of one add can have
BatchOutcomes(nb, widths) == [1..nb -> (IF embedder THEN widths ELSE {}) \cup {0}]

AddDocuments(inputs, widths) ==
    /\ adds < MaxAdds
    /\ \E input \in inputs :
         LET docs == DocLists[input]
             all_chunks == ChunkAll(docs)
             nb == IF docs = <<>> THEN 0 ELSE RangeLen(Len(all_chunks), batch_size)
         IN  \E outcomes \in BatchOutcomes(nb, widths) :
               LET after == IndexAfterAdd(docs, all_chunks, outcomes)
               IN  /\ documents' = StoreAfterAdd(docs, all_chunks)
                   /\ vector_index' = after.index
                   /\ unembedded' = unembedded \cup
                        {Len(documents) + c : c \in Unembedded(docs, all_chunks, outcomes,
                                                                after.raised)}
                   /\ last' = [NoCall EXCEPT !.op = "add", !.input = input,
                                             !.outcomes = outcomes,
                                             !.raised = after.raised,
                                             !.ndocs = Len(documents),
                                             !.nrows = ntotal]
    /\ adds' = adds + 1
    /\ UNCHANGED <<embedder, qa_pipeline, chunker, parser, threads, app>>

----------------------------------------------------------------------------
(* RAGStudyAssistant.query and RAGStudyAssistant.generate_notes *)

\* list[i] for a Python index i (negative indexes count from the end)
PyGet(list, i) == IF i < 0 THEN list[Len(list) + i + 1] ELSE list[i + 1]

\* list[i] raises IndexError
PyOutOfRange(list, i) == i >= Len(list) \/ i < 0 - Len(list)

\* "\n".join(entries)
RECURSIVE JoinNL(_, _)
JoinNL(entries, n) ==
    IF n = 0 THEN <<>>
    ELSE IF n = 1 THEN entries[1]
    ELSE JoinNL(entries, n - 1) \o <<NL>> \o entries[n]

format_instructions(answer_format) ==
    CASE answer_format = "full" ->
           "You are a helpful AI study assistant. Answer the question in a friendly, conversational tone, providing detailed information from the context as if explaining to a curious student."
      [] answer_format = "short_summary" ->
           "You are a helpful AI study assistant. Provide a concise summary of the key points from the context in 2-3 sentences, in a friendly and engaging way."
      [] answer_format = "bullet_points" ->
           "You are a helpful AI study assistant. Extract and present the main information from the context in clear bullet points, making it easy and fun to read."
      [] answer_format = "long_answer" ->
           "You are a helpful AI study assistant. Provide a long and detailed answer, elaborating on all relevant aspects from the context in a conversational manner, like chatting with a student."
      [] answer_format = "one_word" ->
           "You are a helpful AI study assistant. Provide a single word answer based on the context, keeping it straightforward."
      [] answer_format = "short_answer" ->
           "You are a helpful AI study assistant. Provide a brief answer in one or two sentences based on the context, in a friendly tone."
      [] OTHER -> "Answer in full sentences and in detail."

\* one limit for every format
MaxLenLong(answer_format) == 2048

max_len(answer_format) ==
    CASE answer_format \in {"full", "long_answer"} -> 2048
      [] answer_format \in {"short_summary", "bullet_points", "short_answer"} -> 1024
      [] answer_format = "one_word" -> 20
      [] OTHER -> 2048

\* what a call of the pipeline can do: raise, or give back a text
GenChoices ==
    {[ok |-> FALSE, text |-> <<>>]} \cup
    {[ok |-> TRUE, text |-> t] :
        t \in CASE qa_pipeline = "text2text-generation" -> Seq2SeqOutputs
                [] qa_pipeline = "text-generation" -> CausalOutputs
                [] OTHER -> {}}

NotPrompt(piece) == piece # "PROMPT"

\* generated_text.replace(prompt, "")
ReplacePrompt(generated_text) == SelectSeq(generated_text, NotPrompt)

\* how the pipeline call went: "none" without a pipeline, else "ok" or "failed"
GenStatus(gen) ==
    IF qa_pipeline = "None" THEN "none" ELSE IF gen.ok THEN "ok" ELSE "failed"

\* the pipeline call without the try block around it
GeneratedUncaught(gen, error_message) ==
    IF qa_pipeline = "None" \/ ~gen.ok
    THEN [raised |-> "GenerationError", returned |-> <<>>]
    ELSE [raised |-> "",
          returned |-> IF qa_pipeline = "text2text-generation" THEN gen.text
                       ELSE ReplacePrompt(gen.text)]

\* the try block around the pipeline call: what the method returns (it raises
\* nothing: every exception of the block ends in the error message)
Generated(gen, error_message) ==
    [raised |-> "",
     returned |-> IF qa_pipeline = "None" \/ ~gen.ok THEN <<error_message>>
                  ELSE IF qa_pipeline = "text2text-generation" THEN gen.text
                  ELSE ReplacePrompt(gen.text)]

\* the text the pipeline gave back ('' when it gave none)
GeneratedText(gen) == IF qa_pipeline = "None" \/ ~gen.ok THEN <<>> ELSE gen.text

\* the context cut to as many chunks as a search returns
SuppliedContextTop(context_texts) ==
    JoinNL(ChunkAll(context_texts), Min(top_k, Len(ChunkAll(context_texts))))

\* the context of supplied texts: every chunk of every text, in order
SuppliedContext(context_texts) ==
    JoinNL(ChunkAll(context_texts), Len(ChunkAll(context_texts)))

\* the context of each list of supplied texts
SuppliedContexts == [c \in 1..Len(ContextLists) |-> SuppliedContext(ContextLists[c])]

\* the context of a search result: the store entry of every label, in order
IndexContext(I) == JoinNL([j \in 1..Len(I) |-> PyGet(documents, I[j])], Len(I))

\* the prompt of query, as the pieces of its f-string
QueryPrompt(instruction, ctx, question) ==
    <<instruction,
      " Based on the provided context, answer the following educational question accurately. Context: ",
      ctx, " Question: ", question>>

\* the prompt of generate_notes
NotesPrompt(ctx, topic) ==
    <<"Generate detailed study notes on the following topic based on the context:\n\nContext: ",
      ctx, "\n\nTopic: ", topic, "\n\nNotes:">>

\* an empty store taken for the only way to have nothing to search
EmptyStoreOnly == Len(documents) = 0

\* the guard on the index: nothing was indexed, or nothing was stored
EmptyIndex == ~vector_index.created \/ Len(documents) = 0

\* the retrieval common to query and generate_notes, from the guards on the
\* index to the list of labels: where it stops, or the labels I[0]
Retrieve(text, embed_ok, no_result_message) ==
    LET stop(encoded, raised, returned) ==
            [done |-> TRUE, encode |-> encoded, raised |-> raised, returned |-> returned,
             k |-> 0, I |-> <<>>]
    IN  IF EmptyIndex
        THEN stop("", "", <<"Please upload some study materials first!">>)
        ELSE IF qa_pipeline = "None"
        THEN stop("", "", <<"QA model is not loaded properly.">>)
        ELSE IF ~(embedder /\ embed_ok)
        THEN stop("failed", "EncodeError", <<>>)
        ELSE IF vector_index.d # EmbedDim
        THEN stop("ok", "AssertionError", <<>>)
        ELSE LET I == search(vector_index.xb, Embed(text, EmbedDim), top_k)
             IN  IF Len(I) = 0
                 THEN [stop("ok", "", <<no_result_message>>) EXCEPT !.k = top_k]
                 ELSE IF \E j \in 1..Len(I) : PyOutOfRange(documents, I[j])
                 THEN [stop("ok", "IndexError", <<>>) EXCEPT !.k = top_k, !.I = I]
                 ELSE [done |-> FALSE, encode |-> "ok", raised |-> "", returned |-> <<>>,
                       k |-> top_k, I |-> I]

Query(questions, contexts, formats) ==
    /\ \E question \in questions, embed_ok \in BOOLEAN :
         LET found == Retrieve(Questions[question], embed_ok, "No relevant documents found.")
             retrieved == IndexContext(found.I)
         IN  \E context_texts \in contexts, answer_format \in formats, gen \in GenChoices :
               LET call == [NoCall EXCEPT !.op = "query", !.question = question,
                                          !.context_texts = context_texts,
                                          !.answer_format = answer_format,
                                          !.ndocs = Len(documents), !.nrows = ntotal]
                   result == Generated(gen, "Error during generation: ")
                   instruction == format_instructions(answer_format)
                   answer == [call EXCEPT !.raised = result.raised,
                                          !.returned = result.returned,
                                          !.generation = GenStatus(gen),
                                          !.generated = GeneratedText(gen),
                                          !.instruction = instruction,
                                          !.max_length = max_len(answer_format)]
               IN  last' =
                     IF ContextLists[context_texts] # <<>>
                     THEN [answer EXCEPT !.path = "supplied",
                                         !.prompt = QueryPrompt(instruction, SuppliedContexts[context_texts],
                                                                Questions[question])]
                     ELSE IF found.done
                     THEN [call EXCEPT !.raised = found.raised, !.returned = found.returned,
                                       !.encode = found.encode, !.k = found.k, !.I = found.I]
                     ELSE [answer EXCEPT !.path = "index", !.encode = found.encode,
                                         !.k = found.k, !.I = found.I,
                                         !.prompt = QueryPrompt(instruction, retrieved,
                                                                Questions[question])]
    /\ UNCHANGED <<embedder, qa_pipeline, documents, vector_index, adds, unembedded, chunker, parser, threads, app>>

GenerateNotes(topics) ==
    /\ \E topic \in topics, embed_ok \in BOOLEAN, gen \in GenChoices :
         LET call == [NoCall EXCEPT !.op = "notes", !.question = topic,
                                    !.ndocs = Len(documents), !.nrows = ntotal]
             result == Generated(gen, "Error during notes generation: ")
             found == Retrieve(Questions[topic], embed_ok,
                               "No relevant documents found for notes generation.")
         IN  last' =
               IF found.done
               THEN [call EXCEPT !.raised = found.raised, !.returned = found.returned,
                                 !.encode = found.encode, !.k = found.k, !.I = found.I]
               ELSE [call EXCEPT !.raised = result.raised, !.returned = result.returned,
                                 !.generation = GenStatus(gen),
                                 !.generated = GeneratedText(gen),
                                 !.max_length = 2048, !.encode = found.encode,
                                 !.path = "index", !.k = found.k, !.I = found.I,
                                 !.prompt = NotesPrompt(IndexContext(found.I), Questions[topic])]
    /\ UNCHANGED <<embedder, qa_pipeline, documents, vector_index, adds, unembedded, chunker, parser, threads, app>>

\* the entries joined into the context of the last call
ContextEntries ==
    IF last.path = "supplied"
    THEN ChunkAll(ContextLists[last.context_texts])
    ELSE [j \in 1..Len(last.I) |-> PyGet(documents, last.I[j])]

\* the context string of the last call
context == JoinNL(ContextEntries, Len(ContextEntries))

\* the assistant on short documents
Next ==
    \/ AddDocuments(SmallLists, {EmbedDim})
    \/ Query({1, 2}, {1, 2}, Formats)
    \/ GenerateNotes({1, 2})

\* the assistant on the documents of the two-document scenario
NextScenario ==
    \/ AddDocuments(ScenarioLists, {EmbedDim})
    \/ Query({1}, {1}, {"full"})

\* the assistant on document lists of more than one embedding batch
NextBatch ==
    \/ AddDocuments(BatchLists, {EmbedDim})
    \/ Query({2}, {1}, {"full"})

\* adds of one or two batches whose vectors are of width EmbedDim or one more,
\* and queries that bring their own context
NextDim ==
    \/ AddDocuments(DimLists, {EmbedDim, EmbedDim + 1})
    \/ Query({1}, {2}, {"full"})

----------------------------------------------------------------------------
(* RAGStudyAssistant.generate_flashcards: the parser of the generated text. *)
(* A text is here the sequence of its characters.                           *)

UpperCase ==
    <<"A", "B", "C", "D", "E", "F", "G", "H", "I", "J", "K", "L", "M", "N", "O", "P", "Q", "R",
      "S", "T", "U", "V", "W", "X", "Y", "Z">>
LowerCase ==
    <<"a", "b", "c", "d", "e", "f", "g", "h", "i", "j", "k", "l", "m", "n", "o", "p", "q", "r",
      "s", "t", "u", "v", "w", "x", "y", "z">>

\* c.lower()
Lower(c) ==
    IF \E i \in 1..Len(UpperCase) : UpperCase[i] = c
    THEN LowerCase[CHOOSE i \in 1..Len(UpperCase) : UpperCase[i] = c]
    ELSE c

\* s.lower()
LowerStr(s) == [i \in 1..Len(s) |-> Lower(s[i])]

\* s[i - 1:].startswith(sub), for a position i counted from 1
StartsAt(s, i, sub) ==
    /\ i + Len(sub) - 1 <= Len(s)
    /\ \A j \in 1..Len(sub) : s[i + j - 1] = sub[j]

\* s.startswith(prefix)
StartsWith(s, prefix) == StartsAt(s, 1, prefix)

\* s.find(sub): the index (from 0) of the first occurrence, or -1
Find(s, sub) ==
    LET hits == {i \in 1..(Len(s) - Len(sub) + 1) : StartsAt(s, i, sub)}
    IN  IF hits = {} THEN 0 - 1
        ELSE (CHOOSE i \in hits : \A h \in hits : i <= h) - 1

\* s.split(sep) for a non-empty sep: the pieces between the occurrences of
\* sep, taken from the left without overlap
RECURSIVE SplitOn(_, _)
SplitOn(s, sep) ==
    LET i == Find(s, sep)
    IN  IF i = 0 - 1 THEN <<s>>
        ELSE <<PySlice(s, 0, i)>> \o SplitOn(PySlice(s, i + Len(sep), Len(s)), sep)

\* sep.join(list)
RECURSIVE Join(_, _, _)
Join(list, sep, n) ==
    IF n = 0 THEN <<>>
    ELSE IF n = 1 THEN list[1]
    ELSE Join(list, sep, n - 1) \o sep \o list[n]

\* s.replace(old, new) for a non-empty old
Replace(s, old, new) == Join(SplitOn(s, old), new, Len(SplitOn(s, old)))

Whitespace == {" ", "\n", "\r", "\t"}

\* s.strip()
Strip(s) ==
    LET inked == {i \in 1..Len(s) : s[i] \notin Whitespace}
    IN  IF inked = {} THEN <<>>
        ELSE SubSeq(s, CHOOSE i \in inked : \A h \in inked : i <= h,
                       CHOOSE i \in inked : \A h \in inked : i >= h)

LF == <<"\n">>
CR == <<"\r">>
CRLF == <<"\r", "\n">>
FlashcardMarker == <<"F", "l", "a", "s", "h", "c", "a", "r", "d", " ">>
QuestionToken == <<"Q", "u", "e", "s", "t", "i", "o", "n", ":">>
AnswerToken == <<"A", "n", "s", "w", "e", "r", ":">>
question_prefix == <<"q", "u", "e", "s", "t", "i", "o", "n", ":">>
answer_prefix == <<"a", "n", "s", "w", "e", "r", ":">>

flashcards_limit == 5

\* the dict appended for a question and its answer
Flashcard(question, answer) ==
    [question |-> question, answer |-> answer, review_count |-> 0, last_reviewed |-> "None"]

IsQuestionLine(line) == StartsWith(LowerStr(line), question_prefix)
IsAnswerLine(line) == StartsWith(LowerStr(line), answer_prefix)

\* a segment must have more than three lines
MarkerCardStrict(part) ==
    LET lines == SplitOn(part, LF)
        question_line == SelectSeq(lines, IsQuestionLine)
        answer_line == SelectSeq(lines, IsAnswerLine)
    IN  IF Len(lines) > 3 /\ question_line # <<>> /\ answer_line # <<>>
        THEN LET question == Strip(PySlice(question_line[1], Len(question_prefix),
                                           Len(question_line[1])))
                 answer == Strip(PySlice(answer_line[1], Len(answer_prefix),
                                         Len(answer_line[1])))
             IN  IF question # <<>> /\ answer # <<>>
                 THEN <<Flashcard(question, answer)>> ELSE <<>>
        ELSE <<>>

\* the last question line and the last answer line taken, not the first
MarkerCardLast(part) ==
    LET lines == SplitOn(part, LF)
        question_line == SelectSeq(lines, IsQuestionLine)
        answer_line == SelectSeq(lines, IsAnswerLine)
    IN  IF Len(lines) >= 3 /\ question_line # <<>> /\ answer_line # <<>>
        THEN LET question == Strip(PySlice(question_line[Len(question_line)],
                                           Len(question_prefix),
                                           Len(question_line[Len(question_line)])))
                 answer == Strip(PySlice(answer_line[Len(answer_line)], Len(answer_prefix),
                                         Len(answer_line[Len(answer_line)])))
             IN  IF question # <<>> /\ answer # <<>>
                 THEN <<Flashcard(question, answer)>> ELSE <<>>
        ELSE <<>>

\* the flashcards (none or one) of a segment that followed a "Flashcard " marker
MarkerCard(part) ==
    LET lines == SplitOn(part, LF)
        question_line == SelectSeq(lines, IsQuestionLine)
        answer_line == SelectSeq(lines, IsAnswerLine)
    IN  IF Len(lines) >= 3 /\ question_line # <<>> /\ answer_line # <<>>
        THEN LET question == Strip(PySlice(question_line[1], Len(question_prefix),
                                           Len(question_line[1])))
                 answer == Strip(PySlice(answer_line[1], Len(answer_prefix),
                                         Len(answer_line[1])))
             IN  IF question # <<>> /\ answer # <<>>
                 THEN <<Flashcard(question, answer)>> ELSE <<>>
        ELSE <<>>

\* the flashcards (none or one) of a segment that followed a "Question:" token
FallbackCard(part) ==
    LET answer_start == Find(LowerStr(part), answer_prefix)
        question == Strip(PySlice(part, 0, answer_start))
        remaining == Strip(PySlice(part, answer_start + Len(answer_prefix), Len(part)))
        next_question == Find(LowerStr(remaining), question_prefix)
        answer == IF next_question # 0 - 1
                  THEN Strip(PySlice(remaining, 0, next_question))
                  ELSE Strip(remaining)
    IN  IF answer_start # 0 - 1 /\ question # <<>> /\ answer # <<>>
        THEN <<Flashcard(question, answer)>> ELSE <<>>

\* the loop over parts[1:] of the marker strategy, up to the n-th part
RECURSIVE MarkerCards(_, _)
MarkerCards(parts, n) ==
    IF n <= 1 THEN <<>> ELSE MarkerCards(parts, n - 1) \o MarkerCard(parts[n])

\* the loop over question_parts[1:] of the fallback strategy
RECURSIVE FallbackCards(_, _)
FallbackCards(question_parts, n) ==
    IF n <= 1 THEN <<>>
    ELSE FallbackCards(question_parts, n - 1) \o FallbackCard(question_parts[n])

\* line endings made "\n"
Normalized(generated_text) == Replace(Replace(generated_text, CRLF, LF), CR, LF)

\* the text split at "question:" in any case
QuestionPartsAnyCase(normalized_text) == SplitOn(LowerStr(normalized_text), question_prefix)

\* the text split at "Question:"
QuestionParts(normalized_text) == SplitOn(normalized_text, QuestionToken)

\* the fallback strategy tried whenever the marker strategy found nothing
RecognizedEither(generated_text) ==
    LET normalized_text == Normalized(generated_text)
        parts == SplitOn(normalized_text, FlashcardMarker)
        question_parts == QuestionParts(normalized_text)
    IN  IF MarkerCards(parts, Len(parts)) # <<>>
        THEN MarkerCards(parts, Len(parts))
        ELSE FallbackCards(question_parts, Len(question_parts))

\* the list flashcards before it is cut: the marker strategy when the text
\* has a "Flashcard " marker, the fallback strategy otherwise
Recognized(generated_text) ==
    LET normalized_text == Normalized(generated_text)
        parts == SplitOn(normalized_text, FlashcardMarker)
        question_parts == QuestionParts(normalized_text)
    IN  IF Len(parts) > 1
        THEN MarkerCards(parts, Len(parts))
        ELSE FallbackCards(question_parts, Len(question_parts))

\* the list returned whole
FlashcardsUncut(ok, generated_text) ==
    [raised |-> "", returned |-> IF ok THEN Recognized(generated_text) ELSE <<>>]

\* what generate_flashcards returns once the prompt is built: the first
\* flashcards of the generated text, or [] when the pipeline call raised
FlashcardsReturned(ok, generated_text) ==
    [raised |-> "",
     returned |-> IF ok THEN PySlice(Recognized(generated_text), 0, flashcards_limit)
                  ELSE <<>>]

----------------------------------------------------------------------------
(* Threads: one in add_documents, QueryThreads in query.                   *)

QueryThreads == 2

InitThreads ==
    /\ a_pc = "idle"
    /\ a_chunks = <<>>
    /\ a_rows = <<>>
    /\ q_pc = [t \in 1..QueryThreads |-> "idle"]
    /\ q_I = [t \in 1..QueryThreads |-> <<>>]

----------------------------------------------------------------------------
(* The session of the Streamlit application (src/app.py).                  *)

NoRun == [pc |-> "idle", page |-> "dashboard", pos |-> 0, clicked |-> 0,
          question |-> 0, selected |-> {}, answer_format |-> ""]

NoChat == [sent |-> FALSE, context_texts |-> <<>>]

InitApp ==
    /\ ss_documents = <<>>
    /\ uploader = <<>>
    /\ clock = 0
    /\ run = NoRun
    /\ removed = {}
    /\ asked = NoChat

----------------------------------------------------------------------------
(* The generated texts handed to the parser: the example block of the      *)
(* prompt, texts of up to MaxCards numbered flashcards in either layout,   *)
(* and every text of up to MaxPieces pieces.                               *)

MaxCards == 7
MaxPieces == 4

FewShotBlock ==
    <<"F", "l", "a", "s", "h", "c", "a", "r", "d", " ", "1", ":", "\n", "Q", "u", "e", "s",
      "t", "i", "o", "n", ":", " ", "W", "h", "a", "t", " ", "i", "s", " ", "t", "h", "e", " ",
      "c", "a", "p", "i", "t", "a", "l", " ", "o", "f", " ", "F", "r", "a", "n", "c", "e", "?",
      "\n", "A", "n", "s", "w", "e", "r", ":", " ", "P", "a", "r", "i", "s", "\n", "\n", "F",
      "l", "a", "s", "h", "c", "a", "r", "d", " ", "2", ":", "\n", "Q", "u", "e", "s", "t",
      "i", "o", "n", ":", " ", "W", "h", "a", "t", " ", "i", "s", " ", "2", "+", "2", "?",
      "\n", "A", "n", "s", "w", "e", "r", ":", " ", "4", "\n", "\n", "F", "l", "a", "s", "h",
      "c", "a", "r", "d", " ", "3", ":", "\n", "Q", "u", "e", "s", "t", "i", "o", "n", ":",
      " ", "W", "h", "a", "t", " ", "i", "s", " ", "t", "h", "e", " ", "c", "o", "l", "o", "r",
      " ", "o", "f", " ", "t", "h", "e", " ", "s", "k", "y", "?", "\n", "A", "n", "s", "w",
      "e", "r", ":", " ", "B", "l", "u", "e", "\n", "\n", "F", "l", "a", "s", "h", "c", "a",
      "r", "d", " ", "4", ":", "\n", "Q", "u", "e", "s", "t", "i", "o", "n", ":", " ", "W",
      "h", "a", "t", " ", "i", "s", " ", "t", "h", "e", " ", "l", "a", "r", "g", "e", "s", "t",
      " ", "p", "l", "a", "n", "e", "t", "?", "\n", "A", "n", "s", "w", "e", "r", ":", " ",
      "J", "u", "p", "i", "t", "e", "r", "\n", "\n", "F", "l", "a", "s", "h", "c", "a", "r",
      "d", " ", "5", ":", "\n", "Q", "u", "e", "s", "t", "i", "o", "n", ":", " ", "W", "h",
      "a", "t", " ", "i", "s", " ", "w", "a", "t", "e", "r", " ", "m", "a", "d", "e", " ", "o",
      "f", "?", "\n", "A", "n", "s", "w", "e", "r", ":", " ", "H", "y", "d", "r", "o", "g",
      "e", "n", " ", "a", "n", "d", " ", "o", "x", "y", "g", "e", "n">>

Digits == <<"0", "1", "2", "3", "4", "5", "6", "7", "8", "9">>

\* flashcard n in the layout of the prompt
MarkedCard(n) ==
    FlashcardMarker \o <<Digits[n + 1], ":", "\n">> \o
    QuestionToken \o <<" ", "Q", Digits[n + 1], "?", "\n">> \o
    AnswerToken \o <<" ", "A", Digits[n + 1], "\n", "\n">>

\* flashcard n without marker, on one line
InlineCard(n) ==
    QuestionToken \o <<" ", "Q", Digits[n + 1], "?", " ">> \o
    AnswerToken \o <<" ", "A", Digits[n + 1], " ">>

RECURSIVE MarkedCards(_)
MarkedCards(n) == IF n = 0 THEN <<>> ELSE MarkedCards(n - 1) \o MarkedCard(n)

RECURSIVE InlineCards(_)
InlineCards(n) == IF n = 0 THEN <<>> ELSE InlineCards(n - 1) \o InlineCard(n)

Pieces ==
    <<<<"F", "l", "a", "s", "h", "c", "a", "r", "d", " ", "1", ":", "\n">>,
      <<"Q", "u", "e", "s", "t", "i", "o", "n", ":", " ", "q", "\n">>,
      <<"q", "u", "e", "s", "t", "i", "o", "n", ":", "Q", "\r", "\n">>,
      <<"A", "n", "s", "w", "e", "r", ":", " ", "a", "\n">>,
      <<"A", "N", "S", "W", "E", "R", ":", "\n">>,
      <<"Q", "u", "e", "s", "t", "i", "o", "n", ":", " ", "q", " ", "A", "n", "s", "w", "e", "r", ":", " ", "a", " ">>,
      <<"f", "l", "a", "s", "h", "c", "a", "r", "d", " ", "x", "\r">>>>

RECURSIVE Flatten(_, _)
Flatten(choice, n) == IF n = 0 THEN <<>> ELSE Flatten(choice, n - 1) \o Pieces[choice[n]]

PieceTexts ==
    {Flatten(choice, Len(choice)) :
        choice \in UNION {[1..n -> 1..Len(Pieces)] : n \in 0..MaxPieces}}

FlashTexts ==
    {FewShotBlock} \cup {MarkedCards(n) : n \in 1..MaxCards}
        \cup {InlineCards(n) : n \in 1..MaxCards} \cup PieceTexts

InitParser ==
    /\ fc_text = <<>>
    /\ fc_result = [raised |-> "", returned |-> <<>>]
    /\ fc_pc = "idle"

InitParse ==
    /\ fc_text \in FlashTexts
    /\ fc_result = [raised |-> "", returned |-> <<>>]
    /\ fc_pc = "call"
    /\ ck_text = <<>>
    /\ ck_chunks = <<>>
    /\ ck_pc = "idle"
    /\ embedder = TRUE
    /\ qa_pipeline = "text2text-generation"
    /\ vector_index = NoIndex
    /\ documents = <<>>
    /\ adds = 0
    /\ unembedded = {}
    /\ last = NoCall
    /\ InitThreads /\ InitApp

\* the pipeline call of generate_flashcards and what follows it
ParseCall ==
    /\ fc_pc = "call"
    /\ \E ok \in BOOLEAN :
         /\ fc_result' = FlashcardsReturned(ok, fc_text)
         /\ fc_pc' = IF ok THEN "parsed" ELSE "failed"
    /\ UNCHANGED <<fc_text, assistant, chunker, threads, app>>

NextParse == ParseCall

SpecParse == InitParse /\ [][NextParse]_vars

----------------------------------------------------------------------------
(* RAGStudyAssistant.generate_flashcards: the handler.                      *)
(* A word of a chunk is spelled as its decimal numeral, so that the length  *)
(* of a context in characters is defined.                                   *)

flashcard_chunks == 30
max_context_chars == 2048 * 4

\* the contents a call can be given (0 stands for None)
FlashContents == <<Sample, Blank, Long>>

\* the texts the generation can leave in generated_text (for a causal
\* pipeline: after the prompt was replaced away)
FlashOutputs == {<<>>, FewShotBlock, InlineCards(2)}

\* len(str(w)) for a word, 1 for a blank or a newline
CharLen(tok) ==
    IF tok < 10 THEN 1 ELSE IF tok < 100 THEN 2 ELSE IF tok < 1000 THEN 3
    ELSE IF tok < 10000 THEN 4 ELSE 5

\* len() of the tokens lo..hi of a text
RECURSIVE CharCount(_, _, _)
CharCount(text, lo, hi) ==
    IF lo > hi THEN 0
    ELSE IF lo = hi THEN CharLen(text[lo])
    ELSE CharCount(text, lo, (lo + hi) \div 2) + CharCount(text, (lo + hi) \div 2 + 1, hi)

\* the last of the tokens lo..hi that fits whole into budget characters
\* counted from token lo (lo - 1 when none does)
RECURSIVE LastWhole(_, _, _, _)
LastWhole(text, lo, hi, budget) ==
    IF lo > hi THEN lo - 1
    ELSE IF lo = hi THEN (IF CharLen(text[lo]) <= budget THEN lo ELSE lo - 1)
    ELSE LET mid == (lo + hi) \div 2
             left == CharCount(text, lo, mid)
         IN  IF left > budget THEN LastWhole(text, lo, mid, budget)
             ELSE LastWhole(text, mid + 1, hi, budget - left)

\* context[:max_context_chars] + "...", when the context is longer: the
\* tokens kept whole, the characters kept of the token after them, the dots
CutContext(ctx) ==
    IF CharCount(ctx, 1, Len(ctx)) <= max_context_chars
    THEN [text |-> ctx, partial |-> 0, dots |-> FALSE]
    ELSE LET n == LastWhole(ctx, 1, Len(ctx), max_context_chars)
         IN  [text |-> SubSeq(ctx, 1, n),
              partial |-> max_context_chars - CharCount(ctx, 1, n),
              dots |-> TRUE]

\* the context made of the first chunks of a list of chunks
FirstChunksContext(chunks) ==
    CutContext(JoinNL(PySlice(chunks, 0, flashcard_chunks),
                      Len(PySlice(chunks, 0, flashcard_chunks))))

\* the context of each content
ContentContexts ==
    [c \in 1..Len(FlashContents) |-> FirstChunksContext(_chunk_text(FlashContents[c]))]

\* the context of a call: the first chunks of the content, or of the store
FlashContext(content) ==
    IF content = 0 THEN FirstChunksContext(documents) ELSE ContentContexts[content]

\* the prompt of generate_flashcards, as the pieces of its f-string
FlashPrompt(ctx) ==
    <<"Generate 5 flashcards from the following study material. Each flashcard must have a question and answer. Format your response exactly like this example:\n\n",
      FewShotBlock, "\n\nContext: ", ctx, "\n\nFlashcards:">>

\* what the call returns for each generated text
ParsedOutputs == [t \in FlashOutputs |-> FlashcardsReturned(TRUE, t)]

\* generate_flashcards that also files the chunks of its content
GenerateFlashcardsKeeping(contents) ==
    /\ \E content \in contents, ok \in BOOLEAN, generated_text \in FlashOutputs :
         /\ last' = [NoCall EXCEPT !.op = "flashcards", !.input = content,
                                   !.cards = FlashcardsReturned(ok, generated_text).returned]
         /\ documents' = IF content = 0 THEN documents
                         ELSE documents \o _chunk_text(FlashContents[content])
    /\ UNCHANGED <<embedder, qa_pipeline, vector_index, adds, unembedded, chunker, parser, threads, app>>

GenerateFlashcards(contents) ==
    /\ \E content \in contents, ok \in BOOLEAN, generated_text \in FlashOutputs :
         LET call == [NoCall EXCEPT !.op = "flashcards", !.input = content,
                                    !.ndocs = Len(documents), !.nrows = ntotal]
             result == IF ok THEN ParsedOutputs[generated_text]
                       ELSE FlashcardsReturned(FALSE, <<>>)
         IN  last' =
               IF qa_pipeline = "None" THEN call
               ELSE IF content = 0 /\ EmptyIndex THEN call
               ELSE [call EXCEPT !.path = IF content = 0 THEN "store" ELSE "supplied",
                                 !.prompt = FlashPrompt(FlashContext(content)),
                                 !.max_length = 2048,
                                 !.generation = IF ok THEN "ok" ELSE "failed",
                                 !.generated = IF ok THEN generated_text ELSE <<>>,
                                 !.raised = result.raised,
                                 !.cards = result.returned]
    /\ UNCHANGED <<embedder, qa_pipeline, documents, vector_index, adds, unembedded,
                   chunker, parser, threads, app>>

\* every operation of the assistant, on short documents
NextFrame ==
    \/ AddDocuments(FrameLists, {EmbedDim})
    \/ Query({1}, {1, 2}, {"full"})
    \/ GenerateNotes({1})
    \/ GenerateFlashcards({0, 1, 2, 3})

----------------------------------------------------------------------------
(* add_documents and query (index path) line by line, for threads that     *)
(* share one assistant. A step is one read or write of self.documents or   *)
(* self.vector_index together with the local work before it. The index     *)
(* takes no lock: a search that runs while vector_index.add moves the rows *)
(* reads the row count before or after the add, and may read distances     *)
(* from rows that are being moved.                                         *)

RaceLists == {3}

\* the store the chunks are not yet put in
StoreNotExtended(all_chunks) == documents

\* self.documents.extend(all_chunks)
StoreExtended(all_chunks) == documents \o all_chunks

\* lines 66-73: chunk the documents, extend the store
AddExtend(inputs) ==
    /\ a_pc = "idle"
    /\ adds < MaxAdds
    /\ \E input \in inputs :
         /\ DocLists[input] # <<>>
         /\ a_chunks' = ChunkAll(DocLists[input])
         /\ documents' = StoreExtended(ChunkAll(DocLists[input]))
         /\ last' = [NoCall EXCEPT !.op = "add", !.input = input,
                                   !.ndocs = Len(documents), !.nrows = ntotal]
    /\ a_pc' = "embed"
    /\ adds' = adds + 1
    /\ UNCHANGED <<embedder, qa_pipeline, vector_index, unembedded, a_rows, q_pc, q_I,
                   chunker, parser, app>>

\* lines 75-90: embed the batches, stack what was embedded
AddEmbed ==
    /\ a_pc = "embed"
    /\ LET nb == RangeLen(Len(a_chunks), batch_size)
       IN  \E outcomes \in BatchOutcomes(nb, {EmbedDim}) :
             LET embeddings_list == EmbeddingsList(a_chunks, outcomes, nb)
             IN  /\ a_rows' = VStack(embeddings_list, Len(embeddings_list))
                 /\ a_pc' = IF embeddings_list = <<>> THEN "idle" ELSE "create"
                 /\ last' = [last EXCEPT !.outcomes = outcomes]
    /\ UNCHANGED <<embedder, qa_pipeline, documents, vector_index, adds, unembedded,
                   a_chunks, q_pc, q_I, chunker, parser, app>>

\* lines 92-93: create the index if there is none
AddCreate ==
    /\ a_pc = "create"
    /\ vector_index' = IF vector_index.created THEN vector_index
                       ELSE [created |-> TRUE, d |-> Len(a_rows[1]), xb |-> <<>>]
    /\ a_pc' = "add"
    /\ UNCHANGED <<embedder, qa_pipeline, documents, adds, unembedded, last, a_chunks,
                   a_rows, q_pc, q_I, chunker, parser, app>>

\* line 94, first half: vector_index.add has begun to move the rows
AddBegin ==
    /\ a_pc = "add"
    /\ a_pc' = "adding"
    /\ UNCHANGED <<assistant, a_chunks, a_rows, q_pc, q_I, chunker, parser, app>>

\* line 94, second half: the rows are in, the row count is raised
AddEnd ==
    /\ a_pc = "adding"
    /\ vector_index' = [vector_index EXCEPT !.xb = @ \o a_rows]
    /\ a_chunks' = <<>>
    /\ a_rows' = <<>>
    /\ a_pc' = "idle"
    /\ UNCHANGED <<embedder, qa_pipeline, documents, adds, unembedded, last, q_pc, q_I,
                   chunker, parser, app>>

\* lines 106-109: the guards of the index path
QueryGuard(t) ==
    /\ q_pc[t] = "idle"
    /\ ~EmptyIndex
    /\ qa_pipeline # "None"
    /\ q_pc' = [q_pc EXCEPT ![t] = "search"]
    /\ UNCHANGED <<assistant, a_pc, a_chunks, a_rows, q_I, chunker, parser, app>>

Reverse(s) == [i \in 1..Len(s) |-> s[Len(s) + 1 - i]]

\* what vector_index.search can return: the labels of the nearest rows,
\* and, while an add moves the rows, the labels over the rows before or
\* after the add in an order that distances read in between may give
SearchOutcomes(x) ==
    {search(vector_index.xb, x, top_k)} \cup
    (IF a_pc = "adding"
     THEN {search(vector_index.xb \o a_rows, x, top_k),
           Reverse(search(vector_index.xb, x, top_k)),
           Reverse(search(vector_index.xb \o a_rows, x, top_k))}
     ELSE {})

\* lines 112-113: embed the question, search the index
QuerySearch(t, questions) ==
    /\ q_pc[t] = "search"
    /\ embedder
    /\ \E question \in questions :
         \E I \in SearchOutcomes(Embed(Questions[question], EmbedDim)) :
           q_I' = [q_I EXCEPT ![t] = I]
    /\ q_pc' = [q_pc EXCEPT ![t] = "join"]
    /\ UNCHANGED <<assistant, a_pc, a_chunks, a_rows, chunker, parser, app>>

\* lines 115-119: the context is assembled from the store; the call goes
\* on to the pipeline, which touches neither store nor index
QueryJoin(t) ==
    /\ q_pc[t] = "join"
    /\ last' = [NoCall EXCEPT !.op = "query", !.path = "index", !.k = top_k,
                              !.I = q_I[t],
                              !.ndocs = Len(documents), !.nrows = ntotal,
                              !.raised = IF \E j \in 1..Len(q_I[t]) :
                                                PyOutOfRange(documents, q_I[t][j])
                                         THEN "IndexError" ELSE ""]
    /\ q_pc' = [q_pc EXCEPT ![t] = "idle"]
    /\ q_I' = [q_I EXCEPT ![t] = <<>>]
    /\ UNCHANGED <<embedder, qa_pipeline, documents, vector_index, adds, unembedded,
                   a_pc, a_chunks, a_rows, chunker, parser, app>>

NextRace ==
    \/ AddExtend(RaceLists)
    \/ AddEmbed
    \/ AddCreate
    \/ AddBegin
    \/ AddEnd
    \/ \E t \in 1..QueryThreads : QueryGuard(t)
    \/ \E t \in 1..QueryThreads : QuerySearch(t, {1})
    \/ \E t \in 1..QueryThreads : QueryJoin(t)

----------------------------------------------------------------------------
(* The Streamlit application, run by run. The script runs from its first   *)
(* line on every interaction of the user and on every st.rerun(): each run *)
(* builds a new StudyMateApp and with it a new assistant, while            *)
(* st.session_state and the state of the widgets that the run renders      *)
(* outlive it. Of the session state only documents is modelled: messages,  *)
(* flashcards and study sessions are written by these pages and decide     *)
(* nothing in them. The models load in every run as they did in the first. *)

MaxUploads == 4
default_selected == 3

Files == << [name |-> "a.txt", content |-> Sample],
            [name |-> "b.txt", content |-> Other] >>

\* what the user can put in the file_uploader
Uploads == {<<>>, <<1>>, <<2>>, <<1, 2>>}

\* app = StudyMateApp(): a new assistant, then the page of the sidebar
ScriptStart(then) ==
    /\ documents' = <<>>
    /\ vector_index' = NoIndex
    /\ unembedded' = {}
    /\ run' = then
    /\ UNCHANGED <<embedder, qa_pipeline, adds, last, ss_documents, clock, asked,
                   chunker, parser, threads>>

DocumentsRun == [NoRun EXCEPT !.pc = "upload", !.page = "documents", !.pos = 1]
ChatRun == [NoRun EXCEPT !.pc = "chat", !.page = "chat"]

\* a run of the Documents page and the rerun after a removal process the
\* files of the uploader once each
CanUpload(files) == clock + 2 * Len(files) <= MaxUploads

\* the user opens the Documents page
OpenDocuments ==
    /\ run.pc = "idle"
    /\ run.page # "documents"
    /\ CanUpload(uploader)
    /\ ScriptStart(DocumentsRun)
    /\ UNCHANGED <<uploader, removed>>

\* the user opens the Study Chat page; the uploader is not rendered and
\* its files are dropped
OpenChat ==
    /\ run.pc = "idle"
    /\ run.page # "chat"
    /\ uploader' = <<>>
    /\ ScriptStart(ChatRun)
    /\ UNCHANGED removed

\* the user changes the files of the uploader
ChooseFiles(uploads) ==
    /\ run.pc = "idle"
    /\ run.page = "documents"
    /\ \E files \in uploads :
         /\ files # uploader
         /\ CanUpload(files)
         /\ uploader' = files
         /\ removed' = removed \ {Files[files[f]].content :
                                     f \in {g \in 1..Len(files) :
                                              \A u \in 1..Len(uploader) : uploader[u] # files[g]}}
    /\ ScriptStart(DocumentsRun)

\* the user clicks the Remove button of a listed document
ClickRemove ==
    /\ run.pc = "idle"
    /\ run.page = "documents"
    /\ CanUpload(uploader)
    /\ \E i \in 1..Len(ss_documents) :
         ScriptStart([DocumentsRun EXCEPT !.clicked = ss_documents[i].upload_time])
    /\ UNCHANGED <<uploader, removed>>

\* the user sends a question with some documents selected
Options == {ss_documents[i].name : i \in 1..Len(ss_documents)}
DefaultSelected ==
    {ss_documents[i].name : i \in 1..Min(default_selected, Len(ss_documents))}

SendChat(questions, formats) ==
    /\ run.pc = "idle"
    /\ run.page = "chat"
    /\ \E question \in questions, answer_format \in formats,
          selected \in {DefaultSelected} \cup SUBSET Options :
         ScriptStart([ChatRun EXCEPT !.question = question, !.selected = selected,
                                     !.answer_format = answer_format])
    /\ UNCHANGED <<uploader, removed>>

\* lines 310-347: one file of the upload loop
UploadFile ==
    /\ run.pc = "upload"
    /\ run.pos <= Len(uploader)
    /\ LET uploaded_file == Files[uploader[run.pos]]
           text_content == uploaded_file.content
           docs == <<text_content>>
           all_chunks == ChunkAll(docs)
           nb == RangeLen(Len(all_chunks), batch_size)
       IN  \E outcomes \in BatchOutcomes(nb, {EmbedDim}) :
             LET after == IndexAfterAdd(docs, all_chunks, outcomes)
             IN  /\ documents' = StoreAfterAdd(docs, all_chunks)
                 /\ vector_index' = after.index
                 /\ unembedded' = unembedded \cup
                      {Len(documents) + c : c \in Unembedded(docs, all_chunks, outcomes,
                                                              after.raised)}
                 /\ last' = [NoCall EXCEPT !.op = "add", !.outcomes = outcomes,
                                           !.raised = after.raised,
                                           !.ndocs = Len(documents), !.nrows = ntotal]
                 /\ ss_documents' = Append(ss_documents,
                                           [name |-> uploaded_file.name,
                                            content |-> text_content,
                                            upload_time |-> clock + 1])
    /\ clock' = clock + 1
    /\ run' = [run EXCEPT !.pos = @ + 1]
    /\ UNCHANGED <<embedder, qa_pipeline, adds, uploader, removed, asked,
                   chunker, parser, threads>>

\* list.remove(doc): without the first element equal to doc
ListRemove(list, doc) ==
    LET at == CHOOSE i \in 1..Len(list) :
                 list[i] = doc /\ \A j \in 1..(i - 1) : list[j] # doc
    IN  SubSeq(list, 1, at - 1) \o SubSeq(list, at + 1, Len(list))

\* lines 349-362: the document list; the clicked button removes its
\* document and reruns the script
ListDocuments ==
    /\ run.pc = "upload"
    /\ run.pos > Len(uploader)
    /\ IF \E i \in 1..Len(ss_documents) : ss_documents[i].upload_time = run.clicked
       THEN LET doc == ss_documents[CHOOSE i \in 1..Len(ss_documents) :
                                       ss_documents[i].upload_time = run.clicked]
            IN  /\ ss_documents' = ListRemove(ss_documents, doc)
                /\ removed' = removed \cup {doc.content}
                /\ asked' = NoChat
                /\ run' = [run EXCEPT !.pc = "rerun", !.clicked = 0]
       ELSE /\ run' = [run EXCEPT !.pc = "idle", !.clicked = 0]
            /\ UNCHANGED <<ss_documents, removed, asked>>
    /\ UNCHANGED <<assistant, uploader, clock, chunker, parser, threads>>

\* st.rerun(): the script runs again, on the same page, with nothing clicked
Rerun ==
    /\ run.pc = "rerun"
    /\ ScriptStart(IF run.page = "documents" THEN DocumentsRun ELSE ChatRun)
    /\ UNCHANGED <<uploader, removed>>

\* lines 231-242: the contents of the selected documents
SelectedContents(selected) ==
    LET picked == SelectSeq(ss_documents, LAMBDA doc : doc.name \in selected)
    IN  [i \in 1..Len(picked) |-> picked[i].content]

\* lines 231-288: the chat page; a question that was sent is put to the
\* assistant with the selected contents, and the script is rerun
ChatPage ==
    /\ run.pc = "chat"
    /\ IF run.question = 0
       THEN /\ run' = [run EXCEPT !.pc = "idle"]
            /\ UNCHANGED <<last, asked>>
       ELSE /\ run' = [run EXCEPT !.pc = "rerun", !.question = 0]
            /\ \E embed_ok \in BOOLEAN, gen \in GenChoices :
                 LET context_texts == SelectedContents(run.selected)
                     found == Retrieve(Questions[run.question], embed_ok,
                                       "No relevant documents found.")
                     call == [NoCall EXCEPT !.op = "query", !.question = run.question,
                                            !.answer_format = run.answer_format,
                                            !.ndocs = Len(documents), !.nrows = ntotal]
                     result == Generated(gen, "Error during generation: ")
                     instruction == format_instructions(run.answer_format)
                     answer == [call EXCEPT !.raised = result.raised,
                                            !.returned = result.returned,
                                            !.generation = GenStatus(gen),
                                            !.generated = GeneratedText(gen),
                                            !.instruction = instruction,
                                            !.max_length = max_len(run.answer_format)]
                 IN  /\ asked' = [sent |-> TRUE, context_texts |-> context_texts]
                     /\ last' =
                          IF context_texts # <<>>
                          THEN [answer EXCEPT !.path = "supplied",
                                              !.prompt = QueryPrompt(instruction,
                                                             SuppliedContext(context_texts),
                                                             Questions[run.question])]
                          ELSE IF found.done
                          THEN [call EXCEPT !.raised = found.raised,
                                            !.returned = found.returned,
                                            !.encode = found.encode, !.k = found.k,
                                            !.I = found.I]
                          ELSE [answer EXCEPT !.path = "index", !.encode = found.encode,
                                              !.k = found.k, !.I = found.I,
                                              !.prompt = QueryPrompt(instruction,
                                                             IndexContext(found.I),
                                                             Questions[run.question])]
    /\ UNCHANGED <<embedder, qa_pipeline, documents, vector_index, adds, unembedded,
                   ss_documents, uploader, clock, removed, chunker, parser, threads>>

NextApp ==
    \/ OpenDocuments
    \/ OpenChat
    \/ ChooseFiles(Uploads)
    \/ ClickRemove
    \/ SendChat({1}, {"full"})
    \/ UploadFile
    \/ ListDocuments
    \/ Rerun
    \/ ChatPage

----------------------------------------------------------------------------
(* The texts handed to the chunker: W words, numbered in reading order,    *)
(* separated by single spaces; optionally wrapped in extra whitespace.     *)
(* Every window of the chunker starts and ends at a multiple of            *)
(* chunk_overlap, so the word counts taken are those within Slack of such  *)
(* a multiple, up to MaxWords (enough for three windows).                  *)

MaxWords == 3700
Slack == 5

NearBoundary(w) ==
    \/ w % chunk_overlap <= Slack
    \/ w % chunk_overlap >= chunk_overlap - Slack

WordCounts == {w \in 0..MaxWords : NearBoundary(w)}

WordsUpTo(w) == [i \in 1..w |-> i]
PlainText(w) == JoinSp(WordsUpTo(w))
PaddedText(w) == <<SP, SP>> \o PlainText(w) \o <<SP>>

ChunkInputs == {PlainText(w) : w \in WordCounts} \cup {PaddedText(w) : w \in WordCounts}

InitChunker ==
    /\ ck_text = <<>>
    /\ ck_chunks = <<>>
    /\ ck_pc = "idle"

InitChunk ==
    /\ ck_text \in ChunkInputs
    /\ ck_chunks = <<>>
    /\ ck_pc = "call"
    /\ embedder = TRUE
    /\ qa_pipeline = "text2text-generation"
    /\ vector_index = NoIndex
    /\ documents = <<>>
    /\ adds = 0
    /\ unembedded = {}
    /\ last = NoCall
    /\ InitParser
    /\ InitThreads /\ InitApp

ChunkCall ==
    /\ ck_pc = "call"
    /\ ck_chunks' = _chunk_text(ck_text)
    /\ ck_pc' = "done"
    /\ UNCHANGED <<ck_text, assistant, parser, threads, app>>

NextChunk == ChunkCall

SpecChunk == InitChunk /\ [][NextChunk]_vars

Init == InitAssistant /\ InitChunker /\ InitParser /\ InitThreads /\ InitApp

Spec == Init /\ [][Next]_vars

SpecScenario == Init /\ [][NextScenario]_vars

SpecBatch == Init /\ [][NextBatch]_vars

\* an embedder whose vectors are not always of one width
SpecDim == Init /\ [][NextDim]_vars

\* add_documents, query, generate_notes and generate_flashcards
SpecFrame == Init /\ [][NextFrame]_vars

\* one thread in add_documents, the others in query, line by line
SpecRace == Init /\ [][NextRace]_vars

\* the pages of the application, run by run
SpecApp == Init /\ [][NextApp]_vars

----------------------------------------------------------------------------
(* Properties of the chunker *)

CeilDiv(a, b) == (a + b - 1) \div b

ck_words == Split(ck_text)

ChunkSizesOk == \A k \in 1..Len(ck_chunks) : Len(Split(ck_chunks[k])) <= chunk_size

\* C6 as stated: a W-word text yields ceil(max(0, W - 200) / 1800) chunks when
\* W > 0 and none when W = 0, and every chunk has at most chunk_size words.
C6_CountAsStated ==
    ck_pc = "done" =>
        /\ Len(ck_chunks) =
             IF Len(ck_words) > 0
             THEN CeilDiv(Max(0, Len(ck_words) - chunk_overlap), chunk_size - chunk_overlap)
             ELSE 0
        /\ ChunkSizesOk

\* C6 amended: a W-word text yields ceil(W / 1800) chunks, one per window start
\* 0, 1800, 3600, ... below W (so none when W = 0), and every chunk has at most
\* chunk_size words.
C6_ChunkCount ==
    ck_pc = "done" =>
        /\ Len(ck_chunks) = CeilDiv(Len(ck_words), chunk_size - chunk_overlap)
        /\ ChunkSizesOk

C6_Witness ==
    /\ ck_pc = "done"
    /\ Len(ck_words) = 2 * (chunk_size - chunk_overlap) + 1
    /\ Len(ck_chunks) = 3
    /\ ck_text[1] = SP

\* the words of chunk k that are not a repetition of the previous chunk's tail
Fresh(chunks, k) ==
    IF k = 1 THEN Split(chunks[k])
    ELSE PySlice(Split(chunks[k]), chunk_overlap, Len(Split(chunks[k])))

RECURSIVE Reassemble(_, _)
Reassemble(chunks, k) ==
    IF k = 0 THEN <<>> ELSE Reassemble(chunks, k - 1) \o Fresh(chunks, k)

\* C7: the chunks, in order, each but the first without its leading
\* chunk_overlap words (or without all its words when it has fewer), put
\* together give back the word sequence of the text.
C7_Reconstruct ==
    ck_pc = "done" => Reassemble(ck_chunks, Len(ck_chunks)) = ck_words

\* a text whose last chunk lies wholly inside the overlap of the one before it
C7_Witness ==
    /\ ck_pc = "done"
    /\ Len(ck_chunks) = 3
    /\ Len(Split(ck_chunks[3])) < chunk_overlap
    /\ Len(Split(ck_chunks[1])) = chunk_size

----------------------------------------------------------------------------
(* Properties of the store and the index *)

AllEmbedded(outcomes) == \A b \in 1..Len(outcomes) : outcomes[b] # 0

\* C1: between calls the Document Store is as long as the Vector Index has
\* rows (an index not yet created has none), whatever the adds before did.
C1_StoreMatchesIndex == Len(documents) = ntotal

\* C2: an add whose embedding batches all succeed, made when the store was as
\* long as the index had rows, leaves the store as long as the index has rows.
C2_FullAddKeepsLengths ==
    (last.op = "add" /\ AllEmbedded(last.outcomes) /\ last.ndocs = last.nrows)
        => Len(documents) = ntotal

\* a second add of two batches, both embedded, on a store that matched its index
C2_Witness ==
    /\ last.op = "add"
    /\ Len(last.outcomes) = 2
    /\ AllEmbedded(last.outcomes)
    /\ last.ndocs = last.nrows
    /\ last.ndocs > 0
    /\ Len(documents) = last.ndocs + batch_size + 1

\* the store position (from 1) that the label i of a search result selects
Position(i) == IF i < 0 THEN Len(documents) + i + 1 ELSE i + 1

\* C3: the chunks of a batch whose embedding call failed are either gone from
\* the Document Store, or never part of the context of an index-path query.
C3_FailedChunksExcluded ==
    (last.op = "query" /\ last.path = "index")
        => \A j \in 1..Len(last.I) :
             Position(last.I[j]) \notin {p \in unembedded : p <= Len(documents)}

\* C4: a search issued by query or generate_notes asks for no more neighbours
\* than the index has rows, and gives back no more results than that.
C4_SearchWithinRows ==
    (last.op \in {"query", "notes"} /\ last.k > 0)
        => (last.k <= ntotal /\ Len(last.I) <= ntotal)

IsMatch(i) == i >= 0

\* the rows the search of the last call matched, nearest first
Matches == SelectSeq(last.I, IsMatch)

MatchDistance(j) ==
    L2(vector_index.xb[Matches[j] + 1], Embed(Questions[last.question], EmbedDim))

\* the chunks at the matched rows, nearest first
MatchedChunks == [j \in 1..Len(Matches) |-> documents[Matches[j] + 1]]

\* C5: the context of an index-path query is the newline join of the chunks at
\* the matched rows, one entry per match and nothing else, nearest match first,
\* whatever the size of the corpus.
C5_ContextIsMatches ==
    (last.op = "query" /\ last.path = "index")
        => /\ ContextEntries = MatchedChunks
           /\ context = JoinNL(MatchedChunks, Len(MatchedChunks))
           /\ \A j \in 1..(Len(Matches) - 1) : MatchDistance(j) <= MatchDistance(j + 1)

RECURSIVE ChunkCount(_, _)
ChunkCount(docs, n) ==
    IF n = 0 THEN 0 ELSE ChunkCount(docs, n - 1) + Len(_chunk_text(docs[n]))

\* C8: on an empty assistant, adding the 50-word and the 3000-word document
\* with every batch embedded stores the one chunk of the first and then the two
\* chunks of the second, and leaves 3 rows in the index; any add with every
\* batch embedded lengthens the store by the chunk counts of its documents,
\* by 1 for a single short document.
C8_AddGrowsByChunks ==
    (last.op = "add" /\ AllEmbedded(last.outcomes))
        => /\ Len(documents) =
                last.ndocs + ChunkCount(DocLists[last.input], Len(DocLists[last.input]))
           /\ DocLists[last.input] = <<Sample>> => Len(documents) = last.ndocs + 1
           /\ (DocLists[last.input] = <<Short, Long>> /\ last.ndocs = 0 /\ last.nrows = 0)
                => /\ Len(documents) = 3
                   /\ <<documents[1]>> = _chunk_text(Short)
                   /\ <<documents[2], documents[3]>> = _chunk_text(Long)
                   /\ ntotal = 3

C8_Witness ==
    /\ last.op = "add"
    /\ DocLists[last.input] = <<Short, Long>>
    /\ AllEmbedded(last.outcomes)
    /\ last.ndocs = 0
    /\ Len(documents) = 3
    /\ ntotal = 3

\* C9: when the embedding of the question fails in a query on a non-empty
\* index, query returns a message and raises nothing.
C9_EncodeFailureReturned ==
    (last.op = "query" /\ last.encode = "failed")
        => (last.raised = "" /\ last.returned # <<>>)

\* C10: without an embedder, every add returns normally with its chunks
\* appended to the store, and every query returns a text and raises nothing;
\* a query that is handed no context returns the upload-first message.
C10_NoEmbedderDegrades ==
    ~embedder =>
        /\ ~vector_index.created
        /\ last.op = "add" =>
             /\ last.raised = ""
             /\ SubSeq(documents, last.ndocs + 1, Len(documents)) =
                    ChunkAll(DocLists[last.input])
        /\ last.op = "query" =>
             /\ last.raised = ""
             /\ last.returned # <<>>
             /\ ContextLists[last.context_texts] = <<>> =>
                    last.returned = <<"Please upload some study materials first!">>

\* a query through the index after documents were stored without an embedder
C10_Witness ==
    /\ ~embedder
    /\ last.op = "query"
    /\ ContextLists[last.context_texts] = <<>>
    /\ Len(documents) > 1
    /\ last.returned = <<"Please upload some study materials first!">>

----------------------------------------------------------------------------
(* Properties of the generation step *)

\* C11: when the generation call of a query fails, or no pipeline is loaded,
\* query raises nothing and returns a text that says so; this for every
\* question, answer format and context path.
C11_GenerationFailureReturned ==
    (last.op = "query" /\ (last.generation \in {"failed", "none"} \/ qa_pipeline = "None"))
        => /\ last.raised = ""
           /\ last.returned \in {<<"Error during generation: ">>,
                                 <<"QA model is not loaded properly.">>,
                                 <<"Please upload some study materials first!">>}

\* a failed generation call after a search of the index
C11_Witness ==
    /\ last.op = "query"
    /\ last.path = "index"
    /\ last.generation = "failed"
    /\ last.answer_format = "bullet_points"
    /\ last.returned = <<"Error during generation: ">>

\* the widths of the batches of a call disagree with one another, or with the
\* width of the index the call finds
WidthMismatch(outcomes, index) ==
    \E b \in 1..Len(outcomes) :
        /\ outcomes[b] # 0
        /\ \/ index.created /\ outcomes[b] # index.d
           \/ \E a \in 1..(b - 1) : outcomes[a] # 0 /\ outcomes[a] # outcomes[b]

\* C12: an add call with a batch whose embedding width differs from the width
\* of the index, or from the width of an earlier batch of the call, ends in an
\* error and leaves the index exactly as it found it.
C12_WidthMismatchFails ==
    [][(adds' = adds + 1 /\ WidthMismatch(last'.outcomes, vector_index))
          => (last'.raised # "" /\ vector_index' = vector_index)]_vars

\* an add whose vectors are wider than those of the index it finds
C12_Witness ==
    /\ last.op = "add"
    /\ last.raised = "AssertionError"
    /\ \E b \in 1..Len(last.outcomes) : last.outcomes[b] = vector_index.d + 1
    /\ ntotal > 0
    /\ last.nrows = ntotal

\* C13: a query with an answer format outside the six uses the instruction
\* of the format "full" and the limit 2048, and raises nothing.
C13_UnknownFormatAsFull ==
    (last.op = "query" /\ last.path # ""
        /\ last.answer_format \notin {"full", "short_summary", "bullet_points",
                                      "long_answer", "one_word", "short_answer"})
        => /\ last.instruction = format_instructions("full")
           /\ last.max_length = 2048
           /\ last.raised = ""

\* the limit the specification documents for a format
DocumentedLimit(answer_format) ==
    IF answer_format = "one_word" THEN 20
    ELSE IF answer_format \in {"full", "long_answer"} THEN 2048
    ELSE 1024

\* C14: for each of the six formats, the limit handed to the pipeline of a
\* query is the documented one: one_word 20; full and long_answer 2048;
\* short_summary, bullet_points and short_answer 1024.
C14_DocumentedLimits ==
    (last.op = "query" /\ last.path # ""
        /\ last.answer_format \in {"full", "short_summary", "bullet_points",
                                   "long_answer", "one_word", "short_answer"})
        => last.max_length = DocumentedLimit(last.answer_format)

\* a one-word answer asked of the index, and generated
C14_Witness ==
    /\ last.op = "query"
    /\ last.path = "index"
    /\ last.answer_format = "one_word"
    /\ last.generation = "ok"
    /\ last.max_length = 20

\* C15: a query without supplied context, on an assistant with an empty
\* store or without an index, returns the guidance message, raises nothing,
\* and calls neither the embedder nor the pipeline.
C15_EmptyIndexGuidance ==
    (last.op = "query" /\ ContextLists[last.context_texts] = <<>>
        /\ (Len(documents) = 0 \/ ~vector_index.created))
        => /\ last.returned = <<"Please upload some study materials first!">>
           /\ last.raised = ""
           /\ last.encode = ""
           /\ last.generation = ""
           /\ last.prompt = <<>>

\* a query of a store that has chunks, none of them indexed, and no pipeline
C15_Witness ==
    /\ last.op = "query"
    /\ ContextLists[last.context_texts] = <<>>
    /\ Len(documents) > 0
    /\ ~vector_index.created
    /\ qa_pipeline = "None"
    /\ last.returned = <<"Please upload some study materials first!">>

\* the entries from the i-th on, each followed by a newline but the last
RECURSIVE JoinFrom(_, _)
JoinFrom(entries, i) ==
    IF i > Len(entries) THEN <<>>
    ELSE IF i = Len(entries) THEN entries[i]
    ELSE entries[i] \o <<NL>> \o JoinFrom(entries, i + 1)

\* the chunks of the texts from the i-th on
RECURSIVE ChunksFrom(_, _)
ChunksFrom(texts, i) ==
    IF i > Len(texts) THEN <<>> ELSE _chunk_text(texts[i]) \o ChunksFrom(texts, i + 1)

\* C16: a query with supplied texts builds its context as the newline join
\* of every chunk of every text, in order and however many, and does not
\* consult the index: whatever the store and the index hold, the prompt is
\* made of the inputs alone.
C16_SuppliedContextOnly ==
    (last.op = "query" /\ ContextLists[last.context_texts] # <<>>)
        => /\ last.path = "supplied"
           /\ last.prompt[3] = JoinFrom(ChunksFrom(ContextLists[last.context_texts], 1), 1)
           /\ last.prompt[1] = last.instruction
           /\ last.prompt[5] = Questions[last.question]
           /\ last.encode = "" /\ last.k = 0 /\ last.I = <<>>
           /\ last.raised = ""

\* supplied texts of more chunks than a search returns, on a store that has
\* indexed chunks of its own
C16_Witness ==
    /\ last.op = "query"
    /\ last.path = "supplied"
    /\ Len(ChunksFrom(ContextLists[last.context_texts], 1)) > top_k
    /\ ntotal > 0
    /\ Len(documents) > 0
    /\ last.generation = "ok"

\* the text without the prompt at its start
StripEchoed(generated_text) ==
    IF generated_text # <<>> /\ Head(generated_text) = "PROMPT"
    THEN Tail(generated_text) ELSE generated_text

\* C17: with a causal pipeline, query and generate_notes return the
\* generated text less the prompt echoed at its start, and keep any later
\* occurrence of the prompt.
C17_OnlyEchoStripped ==
    (last.op \in {"query", "notes"} /\ qa_pipeline = "text-generation"
        /\ last.generation = "ok")
        => last.returned = StripEchoed(last.generated)

----------------------------------------------------------------------------
(* Properties of the flashcard parser *)

\* the flashcard a numbered card of the generated texts stands for
NumberedCard(n) ==
    [question |-> <<"Q", Digits[n + 1], "?">>, answer |-> <<"A", Digits[n + 1]>>,
     review_count |-> 0, last_reviewed |-> "None"]

\* C18: whatever the generated text, and whether or not the pipeline call
\* raised, generate_flashcards raises nothing and returns at most 5
\* flashcards: the first 5 recognized, in the order of the text, when the
\* text has more than 5.
C18_AtMostFive ==
    fc_pc # "call" =>
        /\ fc_result.raised = ""
        /\ Len(fc_result.returned) <= 5
        /\ fc_pc = "parsed" =>
             /\ Len(fc_result.returned) = Min(5, Len(Recognized(fc_text)))
             /\ \A i \in 1..Len(fc_result.returned) :
                    fc_result.returned[i] = Recognized(fc_text)[i]
             /\ \A n \in 6..MaxCards :
                    fc_text \in {MarkedCards(n), InlineCards(n)}
                        => fc_result.returned = [i \in 1..5 |-> NumberedCard(i)]

\* more than five numbered flashcards in the layout of the prompt
C18_Witness ==
    /\ fc_pc = "parsed"
    /\ fc_text = MarkedCards(MaxCards)
    /\ Len(Recognized(fc_text)) = MaxCards
    /\ Len(fc_result.returned) = 5

\* the five question and answer pairs the prompt gives as examples
StatedExamples ==
    <<
      [question |-> <<"W", "h", "a", "t", " ", "i", "s", " ", "t", "h", "e", " ", "c", "a",
                      "p", "i", "t", "a", "l", " ", "o", "f", " ", "F", "r", "a", "n", "c",
                      "e", "?">>,
       answer |-> <<"P", "a", "r", "i", "s">>,
       review_count |-> 0, last_reviewed |-> "None"],
      [question |-> <<"W", "h", "a", "t", " ", "i", "s", " ", "2", "+", "2", "?">>,
       answer |-> <<"4">>,
       review_count |-> 0, last_reviewed |-> "None"],
      [question |-> <<"W", "h", "a", "t", " ", "i", "s", " ", "t", "h", "e", " ", "c", "o",
                      "l", "o", "r", " ", "o", "f", " ", "t", "h", "e", " ", "s", "k", "y", "?">>,
       answer |-> <<"B", "l", "u", "e">>,
       review_count |-> 0, last_reviewed |-> "None"],
      [question |-> <<"W", "h", "a", "t", " ", "i", "s", " ", "t", "h", "e", " ", "l", "a",
                      "r", "g", "e", "s", "t", " ", "p", "l", "a", "n", "e", "t", "?">>,
       answer |-> <<"J", "u", "p", "i", "t", "e", "r">>,
       review_count |-> 0, last_reviewed |-> "None"],
      [question |-> <<"W", "h", "a", "t", " ", "i", "s", " ", "w", "a", "t", "e", "r", " ",
                      "m", "a", "d", "e", " ", "o", "f", "?">>,
       answer |-> <<"H", "y", "d", "r", "o", "g", "e", "n", " ", "a", "n", "d", " ", "o", "x",
                    "y", "g", "e", "n">>,
       review_count |-> 0, last_reviewed |-> "None"]
    >>

\* C19: the example block of the prompt, given back as the generated text,
\* is parsed into exactly its five flashcards, in order: the five stated
\* questions and answers, each with review_count 0 and no last_reviewed.
C19_ExamplesParsed ==
    (fc_pc = "parsed" /\ fc_text = FewShotBlock) => fc_result.returned = StatedExamples

\* the example block, parsed
C19_Witness ==
    /\ fc_pc = "parsed"
    /\ fc_text = FewShotBlock
    /\ Len(fc_result.returned) = 5
    /\ fc_result.returned[5].answer = StatedExamples[5].answer

\* sub occurs in s
Contains(s, sub) == \E i \in 1..Len(s) : StartsAt(s, i, sub)

\* C20: a generated text without "Flashcard " marker, without "Question:"
\* and without "Answer:" token yields no flashcard.
C20_NoTokensNoCards ==
    (fc_pc # "call" /\ ~Contains(fc_text, FlashcardMarker)
        /\ ~Contains(fc_text, QuestionToken) /\ ~Contains(fc_text, AnswerToken))
        => fc_result.returned = <<>>

\* a text whose question and answer tokens are not in the case the parser
\* splits at
C20_Witness ==
    /\ fc_pc = "parsed"
    /\ ~Contains(fc_text, FlashcardMarker)
    /\ ~Contains(fc_text, QuestionToken)
    /\ ~Contains(fc_text, AnswerToken)
    /\ Find(LowerStr(fc_text), question_prefix) >= 0
    /\ Find(LowerStr(fc_text), question_prefix) < Find(LowerStr(fc_text), answer_prefix)
    /\ Strip(fc_text) # <<>>
    /\ fc_result.returned = <<>>

----------------------------------------------------------------------------
(* Properties of the store and the index over sequences of calls *)

\* C21: query (on either context path, whatever its outcome), generate_notes
\* and generate_flashcards leave the chunks of the store and the rows of the
\* index as they were: only add_documents changes either.
C21_OnlyAddMutates ==
    [][last'.op \in {"query", "notes", "flashcards"}
          => (documents' = documents /\ vector_index' = vector_index)]_vars

\* flashcards generated from a supplied content, on a store that has
\* indexed chunks
C21_Witness ==
    /\ last.op = "flashcards"
    /\ last.path = "supplied"
    /\ last.prompt[4].dots
    /\ Len(last.cards) = 5
    /\ Len(documents) = last.ndocs
    /\ ntotal > 0

\* s is the beginning of t
IsPrefix(s, t) == Len(s) <= Len(t) /\ SubSeq(t, 1, Len(s)) = s

\* C22: over every step the store only grows at its end (the store before is
\* a prefix of the store after), the index never loses a row, and an index
\* once created stays created, with its width and its rows.
C22_AppendOnly ==
    [][/\ IsPrefix(documents, documents')
       /\ Len(vector_index'.xb) >= Len(vector_index.xb)
       /\ vector_index.created
            => /\ vector_index'.created
               /\ vector_index'.d = vector_index.d
               /\ IsPrefix(vector_index.xb, vector_index'.xb)]_vars

\* a second add that put chunks behind those of the first, and rows behind
\* the rows of the first
C22_Witness ==
    /\ last.op = "add"
    /\ adds = 2
    /\ last.ndocs > 0
    /\ Len(documents) > last.ndocs
    /\ last.nrows > 0
    /\ ntotal > last.nrows

----------------------------------------------------------------------------
(* Properties of the two strategies of the flashcard parser *)

\* the segments of the generated text, split at the marker
MarkerSegments == SplitOn(Normalized(fc_text), FlashcardMarker)

\* the positions of the lines of a segment that start with a prefix, any case
LinesWith(lines, prefix) ==
    {i \in 1..Len(lines) : StartsAt(LowerStr(lines[i]), 1, prefix)}

\* the first line of a segment that starts with a prefix, less the prefix
\* and the whitespace around the rest
FirstContent(lines, prefix) ==
    LET i == CHOOSE i \in LinesWith(lines, prefix) : \A j \in LinesWith(lines, prefix) : i <= j
    IN  Strip(SubSeq(lines[i], Len(prefix) + 1, Len(lines[i])))

\* a segment of at least 3 lines with a question line and an answer line
HasBothLines(segment) ==
    LET lines == SplitOn(segment, LF)
    IN  /\ Len(lines) >= 3
        /\ LinesWith(lines, question_prefix) # {}
        /\ LinesWith(lines, answer_prefix) # {}

\* the flashcard the first question and answer lines of a segment spell
SegmentCard(segment) ==
    [question |-> FirstContent(SplitOn(segment, LF), question_prefix),
     answer |-> FirstContent(SplitOn(segment, LF), answer_prefix),
     review_count |-> 0, last_reviewed |-> "None"]

\* one flashcard for every segment after the first that has both lines
RECURSIVE StatedMarkerCards(_, _)
StatedMarkerCards(segments, n) ==
    IF n <= 1 THEN <<>>
    ELSE StatedMarkerCards(segments, n - 1) \o
         (IF HasBothLines(segments[n]) THEN <<SegmentCard(segments[n])>> ELSE <<>>)

\* one flashcard for every segment after the first that has both lines and
\* neither an empty question nor an empty answer
RECURSIVE AmendedMarkerCards(_, _)
AmendedMarkerCards(segments, n) ==
    IF n <= 1 THEN <<>>
    ELSE AmendedMarkerCards(segments, n - 1) \o
         (IF /\ HasBothLines(segments[n])
             /\ SegmentCard(segments[n]).question # <<>>
             /\ SegmentCard(segments[n]).answer # <<>>
          THEN <<SegmentCard(segments[n])>> ELSE <<>>)

\* C23 as stated: under the marker strategy every segment after the first
\* with at least 3 lines, a question line and an answer line gives exactly
\* one flashcard, made of the first such lines less prefix and surrounding
\* whitespace; every other segment gives none.
C23_MarkerCardsAsStated ==
    (fc_pc = "parsed" /\ Len(MarkerSegments) > 1)
        => /\ Recognized(fc_text) = StatedMarkerCards(MarkerSegments, Len(MarkerSegments))
           /\ fc_result.returned =
                PySlice(StatedMarkerCards(MarkerSegments, Len(MarkerSegments)), 0, 5)

\* C23, amended: such a segment gives its flashcard only if the question and
\* the answer so obtained are both non-empty; it gives none otherwise, as
\* does every other segment.
C23_MarkerCards ==
    (fc_pc = "parsed" /\ Len(MarkerSegments) > 1)
        => /\ Recognized(fc_text) = AmendedMarkerCards(MarkerSegments, Len(MarkerSegments))
           /\ fc_result.returned =
                PySlice(AmendedMarkerCards(MarkerSegments, Len(MarkerSegments)), 0, 5)

\* a segment with two answer lines, the first of which made the flashcard
C23_Witness ==
    /\ fc_pc = "parsed"
    /\ Len(MarkerSegments) = 2
    /\ Cardinality(LinesWith(SplitOn(MarkerSegments[2], LF), answer_prefix)) = 2
    /\ Len(fc_result.returned) = 1
    /\ fc_result.returned[1].answer = <<"a">>

\* the segments of the generated text, split at the literal "Question:"
QuestionSegments == SplitOn(Normalized(fc_text), QuestionToken)

\* the flashcards of the fallback strategy alone
FallbackOnly == FallbackCards(QuestionSegments, Len(QuestionSegments))

\* the flashcards of the marker strategy alone
MarkerOnly == MarkerCards(MarkerSegments, Len(MarkerSegments))

\* C24: a generated text with a "Flashcard " marker is parsed by the marker
\* strategy alone, also when that strategy finds no flashcard; the fallback
\* strategy is applied to the texts without marker, and only to them.
C24_StrategiesExclusive ==
    fc_pc = "parsed" =>
        IF Contains(Normalized(fc_text), FlashcardMarker)
        THEN fc_result.returned = PySlice(MarkerOnly, 0, 5)
        ELSE fc_result.returned = PySlice(FallbackOnly, 0, 5)

\* a text with a marker in which the marker strategy finds nothing and the
\* fallback strategy would have found a flashcard
C24_Witness ==
    /\ fc_pc = "parsed"
    /\ Contains(fc_text, FlashcardMarker)
    /\ MarkerOnly = <<>>
    /\ FallbackOnly # <<>>
    /\ fc_result.returned = <<>>

\* the flashcard of a segment as the claim has it: the question before the
\* first "answer:" of any case, the answer from there to the end of the
\* segment, which ends at the next literal "Question:" or with the text
StatedFallbackCard(segment) ==
    LET at == Find(LowerStr(segment), answer_prefix)
        question == Strip(SubSeq(segment, 1, at))
        answer == Strip(SubSeq(segment, at + Len(answer_prefix) + 1, Len(segment)))
    IN  IF at >= 0 /\ question # <<>> /\ answer # <<>>
        THEN <<[question |-> question, answer |-> answer,
                review_count |-> 0, last_reviewed |-> "None"]>>
        ELSE <<>>

RECURSIVE StatedFallbackCards(_, _)
StatedFallbackCards(segments, n) ==
    IF n <= 1 THEN <<>>
    ELSE StatedFallbackCards(segments, n - 1) \o StatedFallbackCard(segments[n])

\* C25: under the fallback strategy every segment after a literal
\* "Question:" that holds an "answer:" of any case gives the question before
\* the first such occurrence and the answer after it, up to the next literal
\* "Question:" or the end of the text, both trimmed; a candidate is dropped
\* only when its question or its answer is empty.
C25_FallbackCardsAsStated ==
    (fc_pc = "parsed" /\ ~Contains(Normalized(fc_text), FlashcardMarker))
        => fc_result.returned =
             PySlice(StatedFallbackCards(QuestionSegments, Len(QuestionSegments)), 0, 5)

----------------------------------------------------------------------------
(* Properties of the pairing of rows and chunks *)

\* C26: after any adds, failed embedding batches included, every row of the
\* index holds the embedding of the chunk at the same position of the store.
C26_RowsPairedWithChunks ==
    \A r \in 1..ntotal :
        /\ r <= Len(documents)
        /\ vector_index.xb[r] = Embed(documents[r], vector_index.d)

----------------------------------------------------------------------------
(* Properties of concurrent calls *)

\* C27: whatever the interleaving of the steps of add_documents with the
\* steps of concurrent index-path queries, the index never has more rows
\* than the store has chunks, and every label a search returned is a
\* position of the store when the context is joined.
C27_RowsWithinStore ==
    /\ ntotal <= Len(documents)
    /\ \A t \in 1..QueryThreads :
         q_pc[t] = "join" =>
            \A j \in 1..Len(q_I[t]) :
               /\ q_I[t][j] < Len(documents)
               /\ q_I[t][j] >= 0 - Len(documents)
    /\ (last.op = "query" /\ last.path = "index") => last.raised = ""

\* a search made while a second add moved the rows, its context joined
\* after the add
C27_Witness ==
    /\ \E t \in 1..QueryThreads :
         /\ q_pc[t] = "join"
         /\ \E j \in 1..Len(q_I[t]) : q_I[t][j] >= last.nrows
    /\ a_pc = "adding"
    /\ last.op = "add"
    /\ last.nrows > 0
    /\ ntotal = last.nrows

----------------------------------------------------------------------------
(* Properties of the application *)

\* the chunks of a text
ChunksOf(text) == {ChunkAll(<<text>>)[c] : c \in 1..Len(ChunkAll(<<text>>))}

\* C28: after a document was removed on the Documents page, a chat question
\* sent later is answered neither from its content among the supplied
\* context texts nor from chunks of it retrieved through the index.
C28_RemovedNotAnswered ==
    \A text \in removed :
        asked.sent =>
            /\ \A j \in 1..Len(asked.context_texts) : asked.context_texts[j] # text
            /\ last.path = "index" =>
                  \A j \in 1..Len(last.I) : PyGet(documents, last.I[j]) \notin ChunksOf(text)

====
